---------------------------- MODULE Spec2Model ----------------------------
(***************************************************************************)
(* Kern hot-reload engine: DependencyTracker (tracker/dependency.py),      *)
(* FileWatcher (tracker/watcher.py), ModuleReloader (hot_reload/           *)
(* reloader.py) and Engine (core/engine.py).                               *)
(*                                                                         *)
(* Encoding.  A path is the sequence of its components below the           *)
(* filesystem anchor; every file is a ".py" file and its last component    *)
(* is its stem, so <<"proj","pkg","a">> is /proj/pkg/a.py and its parent   *)
(* directory is <<"proj","pkg">>.  A dotted module name a.b.c is the       *)
(* sequence <<"a","b","c">>.  Time is counted in units of 0.1 s.           *)
(***************************************************************************)
EXTENDS Integers, Sequences, FiniteSets, TLC

VARIABLES
    files,          \* the .py files that exist on disk
    fileSrc,        \* file -> [parses, imports]: what ast.parse gives for it
    entry_point,    \* DependencyTracker.entry_point
    seen_modules,   \* DependencyTracker.seen_modules
    scanPc,         \* position of one get_local_dependencies() activation
    scanStack,      \* its _scan recursion stack, innermost frame last
    dependencies,   \* its local set `dependencies`
    scanRaised,     \* TRUE once an exception unwound _scan into the handler
    sys_modules,    \* the names cached in sys.modules
    reloadPc,       \* position of one reload_affected_modules() activation
    dirty_paths,    \* its argument, as a set
    modulesBefore,  \* sys.modules when it was called
    sorted_eviction,\* its local list `sorted_eviction`
    evicted_names,  \* its local list `evicted_names`, in order of deletion
    reloadReturn,   \* the set of names in the list it returned
    mtime,          \* file -> its st_mtime on disk
    edits,          \* how many times the user has saved a file
    watcherPc,      \* position of the FileWatcher thread in run()
    watcher_dependencies, \* FileWatcher.dependencies
    last_mtimes,    \* FileWatcher.last_mtimes (a dict: a function on its keys)
    current_mtimes, \* the local `current_mtimes` of run()
    toCheck,        \* the keys of current_mtimes the for loop has yet to visit
    changed_files,  \* FileWatcher.changed_files
    change_detected,\* FileWatcher.change_detected
    sinceLastChange,\* time.time() - FileWatcher.last_change_time, up to the debounce
    enginePc,       \* position of the main thread in Engine.start()
    engineExit,     \* why the process ended, "" while it runs
    dirty,          \* the local `dirty` of Engine.start(), as a set
    user_module,    \* Engine.user_module: <<>> for None, <<v>> for the entry loaded at mtime v
    log_file,       \* content of engine_error.log: <<>> or <<traceback>>
    importResult,   \* how the latest _safe_import() ended: "none", "ok", "failed"
    failures,       \* parity of the number of failures raised so far (tells tracebacks apart)
    sinceObserved,  \* time since the watcher last found a file changed, up to the debounce
    window,         \* the files found changed in the current burst of changes
    cycles,         \* drains begun since the current burst started, up to 2
    undelivered,    \* monitored files saved and not yet passed to reload_affected_modules
    loads,          \* calls of _safe_import() so far, up to MaxCount
    runs,           \* invocations of user_module.run() so far, up to MaxCount
    watcherScan,    \* the watcher thread's own call of get_local_dependencies(), when
                    \* run step by step: [pc, stack, dependencies, raised]
    unreadable,     \* the files for which os.stat raises an OSError other than
                    \* FileNotFoundError (PermissionError, NotADirectoryError, ...)
    resolveCall     \* the latest direct call of _resolve_import_to_path: its
                    \* arguments and what it returned

scanVars == <<seen_modules, scanPc, scanStack, dependencies, scanRaised>>
fsVars == <<files, fileSrc, entry_point, unreadable>>
reloadVars == <<sys_modules, reloadPc, dirty_paths, modulesBefore,
                sorted_eviction, evicted_names, reloadReturn>>
watcherVars == <<watcherPc, watcher_dependencies, last_mtimes, current_mtimes, toCheck,
                 changed_files, change_detected, sinceLastChange>>
engineVars == <<enginePc, engineExit, dirty, user_module, log_file, importResult, failures>>
historyVars == <<sinceObserved, window, cycles, undelivered, loads, runs>>
runVars == <<mtime, edits, watcherVars, engineVars, historyVars, watcherScan, resolveCall>>
vars == <<fsVars, scanVars, reloadVars, runVars>>

---------------------------------------------------------------------------
(* Project files and what they may contain.                                *)

F_app  == <<"proj", "app">>
F_lib  == <<"proj", "lib">>
F_init == <<"proj", "pkg", "__init__">>
F_a    == <<"proj", "pkg", "a">>
F_b    == <<"proj", "pkg", "b">>
F_c    == <<"proj", "pkg", "c">>

AllFiles == {F_app, F_lib, F_init, F_a, F_b, F_c}

\* ast.Import with one alias (a statement `import x, y` gives the same
\* found_paths as `import x` followed by `import y`).
Import(mod) == [kind |-> "import", module |-> mod, names |-> <<>>, level |-> 0]
\* ast.ImportFrom: from <level dots><module> import <names>
From(lvl, mod, nms) == [kind |-> "from", module |-> mod, names |-> nms, level |-> lvl]

Parsed(stmts) == [parses |-> TRUE, imports |-> stmts]
\* a file open() or ast.parse() raises on
Broken == [parses |-> FALSE, imports |-> <<>>]

\* The contents each file takes in the layouts explored.
Contents(f) ==
    CASE f = F_app  -> { Parsed(<<Import(<<"lib">>)>>),
                         Parsed(<<Import(<<"lib">>), Import(<<"pkg", "a">>)>>),
                         Parsed(<<From(0, <<"pkg">>, <<"a">>), Import(<<"app">>)>>),
                         Broken }
      [] f = F_lib  -> { Parsed(<<>>), Parsed(<<Import(<<"app">>)>>), Broken }
      [] f = F_init -> { Parsed(<<>>), Parsed(<<From(1, <<>>, <<"a">>)>>) }
      [] f = F_a    -> { Parsed(<<Import(<<"pkg", "b">>)>>),
                         Parsed(<<From(1, <<>>, <<"b">>)>>),
                         Parsed(<<From(1, <<"b">>, <<"x">>)>>) }
      [] f = F_b    -> { Parsed(<<Import(<<"pkg", "c">>)>>),
                         Parsed(<<From(1, <<>>, <<"c">>), From(2, <<"pkg">>, <<"a">>)>>),
                         Broken }
      [] f = F_c    -> { Parsed(<<>>), Parsed(<<From(1, <<>>, <<"a">>)>>) }

Layouts ==
    { (F_app :> a) @@ (F_lib :> l) @@ (F_init :> i) @@ (F_a :> pa) @@ (F_b :> pb) @@ (F_c :> pc) :
        a \in Contents(F_app), l \in Contents(F_lib), i \in Contents(F_init),
        pa \in Contents(F_a), pb \in Contents(F_b), pc \in Contents(F_c) }

\* _resolve_import_to_path has not been called directly
NoCall == [called |-> FALSE]

\* no call of get_local_dependencies() by the watcher thread in progress
NoScan == [pc |-> "idle", stack |-> <<>>, dependencies |-> {}, raised |-> FALSE]

\* The watcher and the engine before Engine.__init__ (SpecScan and
\* SpecReload leave them there).
InitRunIdle ==
    /\ mtime = [f \in AllFiles |-> 1]
    /\ edits = 0
    /\ watcherPc = "unstarted"
    /\ watcher_dependencies = {}
    /\ last_mtimes = <<>>
    /\ current_mtimes = <<>>
    /\ toCheck = {}
    /\ changed_files = {}
    /\ change_detected = FALSE
    /\ sinceLastChange = 0
    /\ enginePc = "unbuilt"
    /\ engineExit = ""
    /\ dirty = {}
    /\ user_module = <<>>
    /\ log_file = <<>>
    /\ importResult = "none"
    /\ failures = 0
    /\ sinceObserved = 0
    /\ window = {}
    /\ cycles = 0
    /\ undelivered = {}
    /\ loads = 0
    /\ runs = 0
    /\ watcherScan = NoScan
    /\ resolveCall = NoCall

---------------------------------------------------------------------------
(* DependencyTracker                                                       *)

Range(s) == { s[i] : i \in DOMAIN s }

Parent(p) == IF p = <<>> THEN <<>> ELSE SubSeq(p, 1, Len(p) - 1)
Stem(p) == p[Len(p)]

\* DependencyTracker.__init__: base_dir = entry_point.parent
BaseDir(entry) == Parent(entry)

RECURSIVE Up(_, _)
\* `for _ in range(n): anchor_dir = anchor_dir.parent`
Up(dir, n) == IF n <= 0 THEN dir ELSE Up(Parent(dir), n - 1)

\* anchor_dir of _resolve_import_to_path
AnchorDir(base_dir, level, current_file) ==
    IF level > 0 /\ current_file # <<>>
    THEN Up(Parent(current_file), level - 1)
    ELSE base_dir

\* Mutant of SearchPaths: the package initializer is tried first.
SearchPaths_InitFirst(base_dir, base_name, item_name, level, current_file) ==
    LET anchor == IF level > 0 /\ current_file # <<>>
                  THEN Up(Parent(current_file), level - 1)
                  ELSE base_dir
        member == IF item_name # "" THEN <<anchor \o base_name \o <<item_name>>>> ELSE <<>>
        direct == IF base_name = <<>> THEN anchor \o <<"">> ELSE anchor \o base_name
    IN <<anchor \o base_name \o <<"__init__">>>> \o member \o <<direct>>

\* search_paths of _resolve_import_to_path.  item_name = "" stands for None
\* (both are falsy).  With an empty base_name the second candidate is the
\* file "<anchor>/.py", whose stem is the empty string.
SearchPaths(base_dir, base_name, item_name, level, current_file) ==
    LET anchor == AnchorDir(base_dir, level, current_file)
        member == IF item_name # "" THEN <<anchor \o base_name \o <<item_name>>>> ELSE <<>>
        direct == IF base_name = <<>> THEN anchor \o <<"">> ELSE anchor \o base_name
    IN member \o <<direct, anchor \o base_name \o <<"__init__">>>>

\* _resolve_import_to_path: <<p>> for the first candidate that exists,
\* <<>> for None.
ResolveImportToPath(base_dir, base_name, item_name, level, current_file) ==
    LET found == SelectSeq(SearchPaths(base_dir, base_name, item_name, level, current_file),
                           LAMBDA p : p \in files)
    IN IF found = <<>> THEN <<>> ELSE <<Head(found)>>

RECURSIVE ResolveNames(_, _, _, _, _)
\* `for alias in node.names: path = resolve(...); if path: found_paths.append(path)`
ResolveNames(base_dir, module, names, level, file) ==
    IF names = <<>> THEN <<>>
    ELSE ResolveImportToPath(base_dir, module, Head(names), level, file)
         \o ResolveNames(base_dir, module, Tail(names), level, file)

\* found_paths of one ast node in _scan
NodePaths(base_dir, node, file) ==
    IF node.kind = "import"
    THEN ResolveImportToPath(base_dir, node.module, "", 0, <<>>)
    ELSE IF node.module # <<>>
         THEN ResolveNames(base_dir, node.module, node.names, node.level, file)
              \o ResolveImportToPath(base_dir, node.module, "", node.level, file)
         ELSE IF node.level > 0
              THEN ResolveNames(base_dir, <<>>, node.names, node.level, file)
              ELSE <<>>

RECURSIVE FoundPaths(_, _, _)
\* the found_paths of all import nodes of a file, in ast.walk order
FoundPaths(base_dir, nodes, file) ==
    IF nodes = <<>> THEN <<>>
    ELSE NodePaths(base_dir, Head(nodes), file) \o FoundPaths(base_dir, Tail(nodes), file)

\* One activation of _scan: `pc` is "enter" before the seen_modules test and
\* "loop" inside `for p in found_paths`; `found` is what is left to iterate.
Frame(file) == [file |-> file, pc |-> "enter", found |-> <<>>]

Top(stack) == stack[Len(stack)]
Pop(stack) == SubSeq(stack, 1, Len(stack) - 1)
SetTop(stack, fr) == [stack EXCEPT ![Len(stack)] = fr]

\* The state of a resolution: [stack, dependencies, seen_modules, raised]
ScanState(stack, deps, seen, raised) ==
    [stack |-> stack, dependencies |-> deps, seen_modules |-> seen, raised |-> raised]

\* Mutant: `dependencies` starts empty instead of holding the entry point.
GetLocalDependenciesBegin_EmptySet(entry) ==
    ScanState(<<Frame(entry)>>, {}, {}, FALSE)

\* get_local_dependencies, up to the call of _scan
GetLocalDependenciesBegin(entry) ==
    ScanState(<<Frame(entry)>>, {entry}, {}, FALSE)

\* Mutant: open + ast.parse without the try/except, so a file that cannot
\* be read or parsed raises out of _scan.
ScanEnter_NoTry(base_dir, st) ==
    LET fr == Top(st.stack) IN
    IF fr.file \in st.seen_modules
    THEN [st EXCEPT !.stack = Pop(@)]
    ELSE IF fr.file \notin files \/ ~fileSrc[fr.file].parses
         THEN [st EXCEPT !.seen_modules = @ \cup {fr.file}, !.raised = TRUE]
         ELSE [st EXCEPT !.seen_modules = @ \cup {fr.file},
                         !.stack = SetTop(@, [fr EXCEPT !.pc = "loop",
                                    !.found = FoundPaths(base_dir, fileSrc[fr.file].imports, fr.file)])]

\* _scan lines 107-118: the visited guard, then open + ast.parse under
\* try/except.
ScanEnter(base_dir, st) ==
    LET fr == Top(st.stack) IN
    IF fr.file \in st.seen_modules
    THEN [st EXCEPT !.stack = Pop(@)]
    ELSE IF fr.file \notin files \/ ~fileSrc[fr.file].parses
         THEN [st EXCEPT !.stack = Pop(@),
                         !.seen_modules = @ \cup {fr.file}]
         ELSE [st EXCEPT !.seen_modules = @ \cup {fr.file},
                         !.stack = SetTop(@, [fr EXCEPT !.pc = "loop",
                                    !.found = FoundPaths(base_dir, fileSrc[fr.file].imports, fr.file)])]

\* Mutant of ScanLoop: a found path is added and not scanned.
ScanLoop_NoDescent(base_dir, st) ==
    LET fr == Top(st.stack) IN
    IF fr.found = <<>>
    THEN [st EXCEPT !.stack = Pop(@)]
    ELSE [st EXCEPT !.dependencies = @ \cup {Head(fr.found)},
                    !.stack = SetTop(@, [fr EXCEPT !.found = Tail(@)])]

\* _scan lines 148-151: one iteration of `for p in found_paths`, or the
\* return when nothing is left.
ScanLoop(base_dir, st) ==
    LET fr == Top(st.stack) IN
    IF fr.found = <<>>
    THEN [st EXCEPT !.stack = Pop(@)]
    ELSE LET p == Head(fr.found)
             rest == SetTop(st.stack, [fr EXCEPT !.found = Tail(@)])
         IN IF p \notin st.dependencies
            THEN [st EXCEPT !.dependencies = @ \cup {p},
                            !.stack = Append(rest, Frame(p))]
            ELSE [st EXCEPT !.stack = rest]

\* One step of the innermost _scan activation.  An exception that leaves
\* _scan unwinds every frame into get_local_dependencies' handler.
ScanStep(base_dir, st) ==
    LET nxt == IF Top(st.stack).pc = "enter" THEN ScanEnter(base_dir, st)
                                             ELSE ScanLoop(base_dir, st)
    IN IF nxt.raised THEN [nxt EXCEPT !.stack = <<>>] ELSE nxt

RECURSIVE RunScan(_, _)
RunScan(base_dir, st) ==
    IF st.stack = <<>> THEN st ELSE RunScan(base_dir, ScanStep(base_dir, st))

\* A whole call of get_local_dependencies() on a tracker for `entry`:
\* the final [dependencies, seen_modules, ...].
GetLocalDependenciesRun(entry) ==
    RunScan(BaseDir(entry), GetLocalDependenciesBegin(entry))

GetLocalDependencies(entry) == GetLocalDependenciesRun(entry).dependencies

---------------------------------------------------------------------------
(* SpecScan: one call of get_local_dependencies(), a _scan step at a time. *)

Entries == {F_app, F_a}

InitFs ==
    /\ files = AllFiles
    /\ unreadable = {}
    /\ fileSrc \in Layouts
    /\ entry_point \in Entries

InitScan ==
    /\ InitFs
    /\ seen_modules = {}
    /\ scanPc = "idle"
    /\ scanStack = <<>>
    /\ dependencies = {}
    /\ scanRaised = FALSE
    /\ sys_modules = {}
    /\ reloadPc = "idle"
    /\ dirty_paths = {}
    /\ modulesBefore = {}
    /\ sorted_eviction = <<>>
    /\ evicted_names = <<>>
    /\ reloadReturn = {}
    /\ InitRunIdle

CurrentScan == ScanState(scanStack, dependencies, seen_modules, scanRaised)

SetScan(st) ==
    /\ scanStack' = st.stack
    /\ dependencies' = st.dependencies
    /\ seen_modules' = st.seen_modules
    /\ scanRaised' = st.raised

\* get_local_dependencies lines 51-55
CallGetLocalDependencies ==
    /\ scanPc = "idle"
    /\ scanPc' = "scanning"
    /\ SetScan(GetLocalDependenciesBegin(entry_point))
    /\ UNCHANGED <<fsVars, reloadVars, runVars>>

\* a step of _scan
StepScan ==
    /\ scanPc = "scanning"
    /\ scanStack # <<>>
    /\ SetScan(ScanStep(BaseDir(entry_point), CurrentScan))
    /\ UNCHANGED <<scanPc, fsVars, reloadVars, runVars>>

\* get_local_dependencies lines 56-58: `except Exception: pass`, then return
ReturnGetLocalDependencies ==
    /\ scanPc = "scanning"
    /\ scanStack = <<>>
    /\ scanPc' = "returned"
    /\ UNCHANGED <<fsVars, reloadVars, runVars, seen_modules, scanStack, dependencies, scanRaised>>

NextScan == CallGetLocalDependencies \/ StepScan \/ ReturnGetLocalDependencies

SpecScan == InitScan /\ [][NextScan]_vars /\ WF_vars(NextScan)

---------------------------------------------------------------------------
(* Properties of get_local_dependencies (SpecScan)                         *)

\* the import edges static analysis finds in a file, resolved from base_dir;
\* none for a file that cannot be read or parsed
ImportEdges(base_dir, f) ==
    IF f \in files /\ fileSrc[f].parses
    THEN Range(FoundPaths(base_dir, fileSrc[f].imports, f))
    ELSE {}

ScanReturned == scanPc = "returned"

\* C4: for every entry file and import graph, self-imports and cycles
\* included, get_local_dependencies() terminates and the set it returns is
\* finite and contains the entry file.
C4_TerminatesWithEntry ==
    <>(ScanReturned /\ entry_point \in dependencies /\ IsFiniteSet(dependencies))

\* C4 witness: a resolution that went round the cycle app -> lib -> app and
\* returned.
C4_Witness ==
    /\ ScanReturned
    /\ entry_point = F_app
    /\ F_lib \in ImportEdges(BaseDir(F_app), F_app)
    /\ F_app \in ImportEdges(BaseDir(F_app), F_lib)
    /\ {F_app, F_lib} \subseteq seen_modules

\* C9: get_local_dependencies() reaches its return without an exception
\* leaving _scan; a file that cannot be read or parsed is kept and gives no
\* edges (nothing is in the result on account of it alone), the files the
\* parseable ones import are all there, and an entry point with broken
\* syntax resolves to exactly itself.
C9_BrokenFileKept ==
    ScanReturned =>
        /\ ~scanRaised
        /\ \A f \in dependencies :
              ImportEdges(BaseDir(entry_point), f) \subseteq dependencies
        /\ \A f \in dependencies \ {entry_point} :
              \E g \in dependencies : f \in ImportEdges(BaseDir(entry_point), g)
        /\ (~fileSrc[entry_point].parses => dependencies = {entry_point})

\* C9 witness: lib.py does not parse, it is in the result, and pkg/a.py,
\* imported after it by app.py, was still reached.
C9_Witness ==
    /\ ScanReturned
    /\ entry_point = F_app
    /\ ~fileSrc[F_lib].parses
    /\ fileSrc[F_app].imports = <<Import(<<"lib">>), Import(<<"pkg", "a">>)>>
    /\ {F_lib, F_a} \subseteq dependencies

---------------------------------------------------------------------------
(* ModuleReloader                                                          *)

IsPrefix(d, p) == Len(d) <= Len(p) /\ SubSeq(p, 1, Len(d)) = d

\* _get_module_name: the dotted name of file_path below base_dir, a package
\* initializer taking its directory's name; <<>> stands for None and for ""
\* (relative_to raises outside base_dir; both are falsy to the caller).
GetModuleName(base_dir, file_path) ==
    IF ~IsPrefix(base_dir, file_path) THEN <<>>
    ELSE LET parts == SubSeq(file_path, Len(base_dir) + 1, Len(file_path))
         IN IF parts # <<>> /\ parts[Len(parts)] = "__init__"
            THEN SubSeq(parts, 1, Len(parts) - 1)
            ELSE parts

\* len(x.parts); the anchor "/" adds one to every path alike
Depth(p) == Len(p) + 1

RECURSIVE SetToSeq(_)
\* list(a_set): some order of its elements
SetToSeq(S) == IF S = {} THEN <<>>
               ELSE LET x == CHOOSE y \in S : TRUE IN <<x>> \o SetToSeq(S \ {x})

RECURSIVE DependentsLoop(_, _, _)
\* the `while stack` loop of _get_all_dependents_iterative: each candidate
\* is resolved by a fresh tracker whose entry point is the candidate itself
\* (self.tracker.__class__(candidate_file)).
DependentsLoop(to_evict, stack, all_project_files) ==
    IF stack = <<>> THEN to_evict
    ELSE LET current_file == Top(stack)
             added == { candidate_file \in all_project_files \ to_evict :
                           current_file \in GetLocalDependencies(candidate_file) }
         IN DependentsLoop(to_evict \cup added, Pop(stack) \o SetToSeq(added),
                           all_project_files)

\* _get_all_dependents_iterative
GetAllDependentsIterative(initial_dirty_files, all_project_files) ==
    DependentsLoop(initial_dirty_files, SetToSeq(initial_dirty_files), all_project_files)

RECURSIVE Orders_Unsorted(_)
\* Mutant of Orders: list(a_set) is not sorted, any order comes out.
Orders_Unsorted(S) ==
    IF S = {} THEN {<<>>}
    ELSE UNION { { <<x>> \o rest : rest \in Orders_Unsorted(S \ {x}) } : x \in S }

\* The orders sorted(list(a_set), key=depth, reverse=True) can give: the
\* sort is stable and a set lists its elements in an order of its own, so
\* files of equal depth come out in any order.
RECURSIVE Orders(_)
Orders(S) ==
    IF S = {} THEN {<<>>}
    ELSE LET deepest == { x \in S : \A y \in S : Depth(y) <= Depth(x) }
         IN UNION { { <<x>> \o rest : rest \in Orders(S \ {x}) } : x \in deepest }

\* Mutant of EvictOne: the name is deleted from the cache and not reported.
EvictOne_Unreported(entry, acc, path) ==
    LET module_name == GetModuleName(BaseDir(entry), path)
        a1 == IF module_name # <<>> /\ module_name \in acc.mods
              THEN [mods |-> acc.mods \ {module_name}, names |-> acc.names]
              ELSE acc
        entry_name == <<Stem(entry)>>
    IN IF path = entry /\ entry_name \in a1.mods
       THEN [mods |-> a1.mods \ {entry_name}, names |-> Append(a1.names, entry_name)]
       ELSE a1

\* The body of `for path in sorted_eviction` for one path, on
\* [mods, names]: sys.modules and evicted_names.
EvictOne(entry, acc, path) ==
    LET module_name == GetModuleName(BaseDir(entry), path)
        a1 == IF module_name # <<>> /\ module_name \in acc.mods
              THEN [mods |-> acc.mods \ {module_name},
                    names |-> Append(acc.names, module_name)]
              ELSE acc
        entry_name == <<Stem(entry)>>
    IN IF path = entry /\ entry_name \in a1.mods
       THEN [mods |-> a1.mods \ {entry_name}, names |-> Append(a1.names, entry_name)]
       ELSE a1

RECURSIVE EvictAll(_, _, _)
EvictAll(entry, acc, order) ==
    IF order = <<>> THEN acc
    ELSE EvictAll(entry, EvictOne(entry, acc, Head(order)), Tail(order))

---------------------------------------------------------------------------
(* SpecReload: calls of reload_affected_modules(dirty) on a project and a  *)
(* module cache.                                                           *)

\* Bound: the largest dirty list passed in
MaxDirty == 2

\* every name a file of the project can be cached under
CacheNames == { GetModuleName(<<"proj">>, f) : f \in AllFiles }
                \cup { GetModuleName(<<"proj", "pkg">>, f) : f \in {F_a, F_b, F_c} }

\* module caches explored: everything loaded, the package itself not
\* cached, only the top-level modules, nothing
Caches == { CacheNames, CacheNames \ {<<"pkg">>}, {<<"app">>, <<"lib">>, <<"a">>}, {} }

InitScanIdle ==
    /\ seen_modules = {}
    /\ scanPc = "idle"
    /\ scanStack = <<>>
    /\ dependencies = {}
    /\ scanRaised = FALSE

InitReload ==
    /\ InitFs
    /\ InitScanIdle
    /\ sys_modules \in Caches
    /\ reloadPc = "idle"
    /\ dirty_paths = {}
    /\ modulesBefore = sys_modules
    /\ sorted_eviction = <<>>
    /\ evicted_names = <<>>
    /\ reloadReturn = {}
    /\ InitRunIdle

\* Mutant of ReloadNothing: an empty list empties the module cache.
ReloadNothing_ClearsCache ==
    /\ reloadPc = "idle"
    /\ reloadPc' = "returned"
    /\ dirty_paths' = {}
    /\ modulesBefore' = sys_modules
    /\ sorted_eviction' = <<>>
    /\ evicted_names' = <<>>
    /\ reloadReturn' = {}
    /\ sys_modules' = {}
    /\ UNCHANGED <<fsVars, scanVars, runVars>>

\* reload_affected_modules(dirty) with an empty list: lines 111-112
ReloadNothing ==
    /\ reloadPc = "idle"
    /\ reloadPc' = "returned"
    /\ dirty_paths' = {}
    /\ modulesBefore' = sys_modules
    /\ sorted_eviction' = <<>>
    /\ evicted_names' = <<>>
    /\ reloadReturn' = {}
    /\ UNCHANGED <<fsVars, scanVars, sys_modules, runVars>>

\* reload_affected_modules(dirty) with a non-empty list: lines 114-142
ReloadAffectedModules(paths) ==
    /\ reloadPc = "idle"
    /\ paths # {}
    /\ LET res == GetLocalDependenciesRun(entry_point)
           to_evict_paths == GetAllDependentsIterative(paths, res.dependencies)
       IN \E order \in Orders(to_evict_paths) :
            LET out == EvictAll(entry_point, [mods |-> sys_modules, names |-> <<>>], order)
            IN /\ sorted_eviction' = order
               /\ sys_modules' = out.mods
               /\ evicted_names' = out.names
               /\ reloadReturn' = Range(out.names)
               /\ seen_modules' = res.seen_modules
    /\ reloadPc' = "returned"
    /\ dirty_paths' = paths
    /\ modulesBefore' = sys_modules
    /\ UNCHANGED <<fsVars, scanPc, scanStack, dependencies, scanRaised, runVars>>

DirtySets == { d \in SUBSET AllFiles : Cardinality(d) \in 1..MaxDirty }

NextReload ==
    \/ ReloadNothing
    \/ \E paths \in DirtySets : ReloadAffectedModules(paths)

SpecReload == InitReload /\ [][NextReload]_vars

---------------------------------------------------------------------------
(* Properties of reload_affected_modules (SpecReload)                      *)

ReloadReturned == reloadPc = "returned"

RECURSIVE Closure(_, _)
\* the files reachable from the set S along import edges resolved from
\* base_dir
Closure(base_dir, S) ==
    LET more == S \cup UNION { ImportEdges(base_dir, f) : f \in S }
    IN IF more = S THEN S ELSE Closure(base_dir, more)

\* f imports some file of D, directly or through other files, in the import
\* graph resolved from the project root
TransitivelyImports(f, D) ==
    Closure(BaseDir(entry_point), ImportEdges(BaseDir(entry_point), f)) \cap D # {}

\* C1 as stated: reload_affected_modules(dirty) evicts the cached identity
\* of every dirty file and of every file of resolve(entry) that transitively
\* imports a dirty file in the project-root import graph.
C1_EvictsAllDependents ==
    (ReloadReturned /\ dirty_paths # {}) =>
        \A f \in dirty_paths \cup
                 { g \in GetLocalDependencies(entry_point) :
                      TransitivelyImports(g, dirty_paths) } :
            LET name == GetModuleName(BaseDir(entry_point), f)
            IN (name # <<>> /\ name \in modulesBefore) => name \notin sys_modules

IsProperPrefix(a, b) == Len(a) < Len(b) /\ SubSeq(b, 1, Len(a)) = a

\* C6 as stated: whenever a module identity and the identity of one of its
\* ancestor packages are both evicted in a call, the more nested module is
\* deleted from the cache before the ancestor.
C6_NestedBeforeAncestor ==
    ReloadReturned =>
        \A i, j \in DOMAIN evicted_names :
            IsProperPrefix(evicted_names[j], evicted_names[i]) => i < j

---------------------------------------------------------------------------
(* FileWatcher and Engine                                                  *)

\* Engine.DEBOUNCE_SECONDS, in units of 0.1 s
DEBOUNCE_SECONDS == 5

\* Bound: how many times the user saves a file during a run
MaxEdits == 2

None == <<>>

\* The files the user edits during a run, and what a save may leave in them.
EditableFiles == {F_app, F_lib}
EditContents(f) ==
    IF f = F_app THEN { Parsed(<<Import(<<"lib">>)>>), Broken }
                 ELSE { Parsed(<<>>) }

\* the project Engine is started on: app.py imports lib.py
StartLayout ==
    (F_app :> Parsed(<<Import(<<"lib">>)>>)) @@ (F_lib :> Parsed(<<>>))
    @@ (F_init :> Parsed(<<>>)) @@ (F_a :> Parsed(<<>>))
    @@ (F_b :> Parsed(<<>>)) @@ (F_c :> Parsed(<<>>))

\* FileWatcher._get_mtimes: os.stat of every monitored file, one that is
\* not there skipped
GetMtimes(deps) == [p \in deps \cap files |-> mtime[p]]

\* _get_mtimes lines 57-60: `except FileNotFoundError: continue` is the only
\* handler, so any other OSError of os.stat leaves _get_mtimes and, at line
\* 91, FileWatcher.run: the thread ends.
StatRaises(deps) == deps \cap unreadable # {}

\* self.last_mtimes.get(path, 0)
LastMtime(path) == IF path \in DOMAIN last_mtimes THEN last_mtimes[path] ELSE 0

\* Bound of the counters loads and runs
MaxCount == 3

Counted(n) == IF n < MaxCount THEN n + 1 ELSE n

Older(t) == IF t < DEBOUNCE_SECONDS THEN t + 1 ELSE t

Running == enginePc \notin {"unbuilt", "terminated"}

\* Engine.__init__ has run: tracker, reloader and watcher are built, the
\* watcher thread is not started yet.
Init ==
    /\ files = AllFiles
    /\ unreadable = {}
    /\ fileSrc = StartLayout
    /\ entry_point = F_app
    /\ mtime = [f \in AllFiles |-> 1]
    /\ edits = 0
    /\ InitScanIdle
    /\ sys_modules = {}
    /\ reloadPc = "idle"
    /\ dirty_paths = {}
    /\ modulesBefore = {}
    /\ sorted_eviction = <<>>
    /\ evicted_names = <<>>
    /\ reloadReturn = {}
    /\ watcherPc = "unstarted"
    /\ watcher_dependencies = GetLocalDependencies(entry_point)
    /\ last_mtimes = GetMtimes(watcher_dependencies)
    /\ current_mtimes = <<>>
    /\ toCheck = {}
    /\ changed_files = {}
    /\ change_detected = FALSE
    /\ sinceLastChange = DEBOUNCE_SECONDS
    /\ enginePc = "start"
    /\ engineExit = ""
    /\ dirty = {}
    /\ user_module = None
    /\ log_file = <<>>
    /\ importResult = "none"
    /\ failures = 0
    /\ sinceObserved = DEBOUNCE_SECONDS
    /\ window = {}
    /\ cycles = 0
    /\ undelivered = {}
    /\ loads = 0
    /\ runs = 0
    /\ watcherScan = NoScan
    /\ resolveCall = NoCall

idleVars == <<watcherScan, resolveCall, scanPc, scanStack, dependencies, scanRaised, reloadPc, dirty_paths,
              modulesBefore, sorted_eviction, evicted_names, reloadReturn>>

(* The user and the clock *)

\* The user saves file f with content c: a later mtime.
Save(f, c) ==
    /\ Running
    /\ edits < MaxEdits
    /\ edits' = edits + 1
    /\ mtime' = [mtime EXCEPT ![f] = @ + 1]
    /\ fileSrc' = [fileSrc EXCEPT ![f] = c]
    /\ undelivered' = IF f \in watcher_dependencies THEN undelivered \cup {f}
                                                    ELSE undelivered
    /\ UNCHANGED <<files, entry_point, unreadable, seen_modules, sys_modules, idleVars,
                   watcherVars, engineVars, sinceObserved, window, cycles, loads, runs>>

EditFile(f) == \E c \in EditContents(f) : Save(f, c)

\* 0.1 s passes.
Tick ==
    /\ Running
    /\ sinceLastChange' = Older(sinceLastChange)
    /\ sinceObserved' = Older(sinceObserved)
    /\ UNCHANGED <<fsVars, seen_modules, sys_modules, idleVars, mtime, edits,
                   watcherPc, watcher_dependencies, last_mtimes, current_mtimes,
                   toCheck, changed_files, change_detected, engineVars,
                   window, cycles, undelivered, loads, runs>>

\* Ctrl+C reaches the main thread: inside the loop `except KeyboardInterrupt`
\* calls sys.exit(0), before it the interrupt ends start() itself.
UserInterrupt ==
    /\ Running
    /\ enginePc # "start"
    /\ enginePc' = "terminated"
    /\ engineExit' = "interrupt"
    /\ UNCHANGED <<fsVars, seen_modules, sys_modules, idleVars, mtime, edits,
                   watcherVars, dirty, user_module, log_file, importResult,
                   failures, historyVars>>

(* FileWatcher.run, a daemon thread *)

watcherFrame == <<fsVars, sys_modules, idleVars, mtime, edits, engineVars>>

\* line 91: current_mtimes = self._get_mtimes()
WatcherPoll ==
    /\ Running /\ watcherPc = "poll"
    /\ IF StatRaises(watcher_dependencies)
       THEN /\ watcherPc' = "dead"
            /\ UNCHANGED <<current_mtimes, toCheck>>
       ELSE /\ current_mtimes' = GetMtimes(watcher_dependencies)
            /\ toCheck' = watcher_dependencies \cap files
            /\ watcherPc' = "loop"
    /\ UNCHANGED <<watcherFrame, seen_modules, watcher_dependencies, last_mtimes,
                   changed_files, change_detected, sinceLastChange, historyVars>>

\* lines 92-95: the next (path, mtime) of current_mtimes; a later mtime is
\* stored and the path added to changed_files
WatcherCompare ==
    /\ Running /\ watcherPc = "loop"
    /\ \E path \in toCheck :
        /\ toCheck' = toCheck \ {path}
        /\ IF current_mtimes[path] > LastMtime(path)
           THEN /\ last_mtimes' = [p \in DOMAIN last_mtimes \cup {path} |->
                                     IF p = path THEN current_mtimes[path] ELSE last_mtimes[p]]
                /\ changed_files' = changed_files \cup {path}
                /\ watcherPc' = "rescan"
                /\ sinceObserved' = 0
                /\ window' = IF sinceObserved < DEBOUNCE_SECONDS THEN window \cup {path}
                                                                 ELSE {path}
                /\ cycles' = IF sinceObserved < DEBOUNCE_SECONDS THEN cycles ELSE 0
           ELSE UNCHANGED <<last_mtimes, changed_files, watcherPc, sinceObserved,
                            window, cycles>>
    /\ UNCHANGED <<watcherFrame, seen_modules, watcher_dependencies, current_mtimes,
                   change_detected, sinceLastChange, undelivered, loads, runs>>

\* line 98: self.dependencies = self.tracker.get_local_dependencies()
WatcherRescan ==
    /\ Running /\ watcherPc = "rescan"
    /\ LET res == GetLocalDependenciesRun(entry_point)
       IN /\ watcher_dependencies' = res.dependencies
          /\ seen_modules' = res.seen_modules
    /\ watcherPc' = "signal"
    /\ UNCHANGED <<watcherFrame, last_mtimes, current_mtimes, toCheck, changed_files,
                   change_detected, sinceLastChange, historyVars>>

\* line 101: self.change_detected = True
WatcherSignal ==
    /\ Running /\ watcherPc = "signal"
    /\ change_detected' = TRUE
    /\ watcherPc' = "stamp"
    /\ UNCHANGED <<watcherFrame, seen_modules, watcher_dependencies, last_mtimes,
                   current_mtimes, toCheck, changed_files, sinceLastChange, historyVars>>

\* line 102: self.last_change_time = time.time()
WatcherStamp ==
    /\ Running /\ watcherPc = "stamp"
    /\ sinceLastChange' = 0
    /\ watcherPc' = "loop"
    /\ UNCHANGED <<watcherFrame, seen_modules, watcher_dependencies, last_mtimes,
                   current_mtimes, toCheck, changed_files, change_detected, historyVars>>

\* line 104: the for loop is over; time.sleep(0.3), then the next tick
WatcherSleep ==
    /\ Running /\ watcherPc = "loop"
    /\ toCheck = {}
    /\ watcherPc' = "poll"
    /\ UNCHANGED <<watcherFrame, seen_modules, watcher_dependencies, last_mtimes,
                   current_mtimes, toCheck, changed_files, change_detected,
                   sinceLastChange, historyVars>>

Watcher == WatcherPoll \/ WatcherCompare \/ WatcherRescan \/ WatcherSignal
             \/ WatcherStamp \/ WatcherSleep

(* Engine.start, the main thread *)

engineFrame == <<fsVars, idleVars, mtime, edits, watcherPc, watcher_dependencies,
                 last_mtimes, current_mtimes, toCheck, sinceLastChange,
                 sinceObserved, window>>

\* Engine.entry_name
EntryName == <<Stem(entry_point)>>

\* What importing the entry leaves in sys.modules when it succeeds: the
\* entry and the project files its import statements load.
LoadedNames ==
    { GetModuleName(BaseDir(entry_point), f) : f \in GetLocalDependencies(entry_point) }
        \ {<<>>}

\* How executing the entry file can end: "ok", "exception" (an Exception,
\* SyntaxError included) or "exit" (a BaseException that is no Exception:
\* SystemExit from sys.exit()).  A file that does not parse cannot load.
LoadOutcomes ==
    IF \E f \in GetLocalDependencies(entry_point) : ~fileSrc[f].parses
    THEN {"exception"}
    ELSE {"ok", "exception", "exit"}

\* What a load that fails leaves in sys.modules: the entry itself is not
\* added (a failed first import is removed again, a failed reload keeps the
\* old entry); the imports executed before the failure stay.
PartlyLoaded ==
    IF ~fileSrc[entry_point].parses THEN {{}}
    ELSE {{}, LoadedNames \ {EntryName}}

\* traceback.format_exc() of the n-th failure
Traceback(kind, n) == <<[kind |-> kind, n |-> n]>>

\* line 125: self.watcher.start()
EngineStart ==
    /\ enginePc = "start"
    /\ enginePc' = "init_import"
    /\ watcherPc' = "poll"
    /\ UNCHANGED <<fsVars, seen_modules, sys_modules, idleVars, mtime, edits,
                   watcher_dependencies, last_mtimes, current_mtimes, toCheck,
                   changed_files, change_detected, sinceLastChange, engineExit,
                   dirty, user_module, log_file, importResult, failures, historyVars>>

\* _safe_import (lines 91-108) called from line 130 (`at` = "init_import",
\* result ignored) or line 150 (`at` = "import").  _log_error opens the log
\* with mode "w"; when that raises, the OSError leaves the except block.
SafeImport(at, onTrue, onFalse) ==
    /\ enginePc = at
    /\ loads' = Counted(loads)
    /\ \E outcome \in LoadOutcomes, logOk \in BOOLEAN :
       /\ CASE outcome = "ok" ->
                /\ user_module' = <<mtime[entry_point]>>
                /\ importResult' = "ok"
                /\ enginePc' = onTrue
                /\ UNCHANGED <<log_file, failures, engineExit>>
          [] outcome = "exception" /\ logOk ->
                /\ failures' = 1 - failures
                /\ log_file' = Traceback("load", 1 - failures)
                /\ user_module' = None
                /\ importResult' = "failed"
                /\ enginePc' = onFalse
                /\ UNCHANGED engineExit
          [] outcome = "exception" /\ ~logOk ->
                /\ failures' = 1 - failures
                /\ importResult' = "failed"
                /\ enginePc' = "terminated"
                /\ engineExit' = "OSError"
                /\ UNCHANGED <<log_file, user_module>>
          [] outcome = "exit" ->
                /\ logOk
                /\ failures' = 1 - failures
                /\ importResult' = "failed"
                /\ enginePc' = "terminated"
                /\ engineExit' = "SystemExit"
                /\ UNCHANGED <<log_file, user_module>>
       /\ IF outcome = "ok"
          THEN sys_modules' = sys_modules \cup LoadedNames
          ELSE \E loaded \in PartlyLoaded : sys_modules' = sys_modules \cup loaded
    /\ UNCHANGED <<engineFrame, seen_modules, changed_files, change_detected, dirty,
                   cycles, undelivered, runs>>

\* line 130
EngineInitialImport == SafeImport("init_import", "init_exec", "init_exec")

\* line 150: `if self._safe_import(): self._execute_user_code()`
EngineSafeImport == SafeImport("import", "exec", "sleep")

\* _execute_user_code lines 167-174, up to the call of run(): nothing
\* without a module, a warning without a run attribute
ExecuteUserCode(at, inRun, after) ==
    /\ enginePc = at
    /\ \E hasRun \in BOOLEAN :
        IF user_module # None /\ hasRun
        THEN enginePc' = inRun /\ runs' = Counted(runs)
        ELSE enginePc' = after /\ UNCHANGED runs
    /\ UNCHANGED <<engineFrame, seen_modules, sys_modules, changed_files,
                   change_detected, engineExit, dirty, user_module, log_file,
                   importResult, failures, cycles, undelivered, loads>>

\* self.user_module.run() returns or raises: lines 171-176
RunReturns(at, after) ==
    /\ enginePc = at
    /\ \E outcome \in {"ok", "exception", "exit"}, logOk \in BOOLEAN :
        CASE outcome = "ok" ->
                /\ logOk
                /\ enginePc' = after
                /\ UNCHANGED <<log_file, failures, engineExit>>
          [] outcome = "exception" /\ logOk ->
                /\ failures' = 1 - failures
                /\ log_file' = Traceback("run", 1 - failures)
                /\ enginePc' = after
                /\ UNCHANGED engineExit
          [] outcome = "exception" /\ ~logOk ->
                /\ failures' = 1 - failures
                /\ enginePc' = "terminated"
                /\ engineExit' = "OSError"
                /\ UNCHANGED log_file
          [] outcome = "exit" ->
                /\ logOk
                /\ failures' = 1 - failures
                /\ enginePc' = "terminated"
                /\ engineExit' = "SystemExit"
                /\ UNCHANGED log_file
    /\ UNCHANGED <<engineFrame, seen_modules, sys_modules, changed_files,
                   change_detected, dirty, user_module, importResult, cycles,
                   undelivered, loads, runs>>

\* line 131
EngineInitialExecute == ExecuteUserCode("init_exec", "init_run", "check")
EngineInitialRun == RunReturns("init_run", "check")

\* line 151
EngineExecute == ExecuteUserCode("exec", "run", "sleep")
EngineRun == RunReturns("run", "sleep")

engineLocal == <<engineExit, user_module, log_file, importResult, failures>>

\* line 136: if self.watcher.change_detected
EngineCheckFlag ==
    /\ enginePc = "check"
    /\ enginePc' = IF change_detected THEN "debounce" ELSE "sleep"
    /\ UNCHANGED <<engineFrame, seen_modules, sys_modules, changed_files,
                   change_detected, dirty, engineLocal, cycles, undelivered, loads, runs>>

\* lines 139-141: time.time() - self.watcher.last_change_time >= DEBOUNCE_SECONDS
EngineCheckDebounce ==
    /\ enginePc = "debounce"
    /\ enginePc' = IF sinceLastChange >= DEBOUNCE_SECONDS THEN "drain_copy" ELSE "sleep"
    /\ UNCHANGED <<engineFrame, seen_modules, sys_modules, changed_files,
                   change_detected, dirty, engineLocal, cycles, undelivered, loads, runs>>

\* get_and_clear_dirty line 73: dirty = list(self.changed_files)
DrainCopy ==
    /\ enginePc = "drain_copy"
    /\ dirty' = changed_files
    /\ cycles' = IF cycles < 2 THEN cycles + 1 ELSE cycles
    /\ enginePc' = "drain_clear"
    /\ UNCHANGED <<engineFrame, seen_modules, sys_modules, changed_files,
                   change_detected, engineLocal, undelivered, loads, runs>>

\* Mutant of DrainClear: the drain leaves changed_files as it is.
DrainClear_NoClear ==
    /\ enginePc = "drain_clear"
    /\ enginePc' = "drain_flag"
    /\ UNCHANGED <<engineFrame, seen_modules, sys_modules, changed_files,
                   change_detected, dirty, engineLocal, cycles, undelivered, loads, runs>>

\* get_and_clear_dirty line 74: self.changed_files.clear()
DrainClear ==
    /\ enginePc = "drain_clear"
    /\ changed_files' = {}
    /\ enginePc' = "drain_flag"
    /\ UNCHANGED <<engineFrame, seen_modules, sys_modules, change_detected, dirty,
                   engineLocal, cycles, undelivered, loads, runs>>

\* get_and_clear_dirty lines 75-76: self.change_detected = False; return dirty
DrainFlag ==
    /\ enginePc = "drain_flag"
    /\ change_detected' = FALSE
    /\ enginePc' = "reload"
    /\ UNCHANGED <<engineFrame, seen_modules, sys_modules, changed_files, dirty,
                   engineLocal, cycles, undelivered, loads, runs>>

\* line 146: self.reloader.reload_affected_modules(dirty)
EngineReload ==
    /\ enginePc = "reload"
    /\ IF dirty = {}
       THEN UNCHANGED <<sys_modules, seen_modules>>
       ELSE LET res == GetLocalDependenciesRun(entry_point)
                to_evict_paths == GetAllDependentsIterative(dirty, res.dependencies)
            IN \E order \in Orders(to_evict_paths) :
                 /\ sys_modules' = EvictAll(entry_point,
                                      [mods |-> sys_modules, names |-> <<>>], order).mods
                 /\ seen_modules' = res.seen_modules
    /\ undelivered' = undelivered \ dirty
    /\ enginePc' = "import"
    /\ UNCHANGED <<engineFrame, changed_files, change_detected, dirty, engineLocal,
                   cycles, loads, runs>>

\* line 154: time.sleep(0.1), then the next pass of `while True`
EngineSleep ==
    /\ enginePc = "sleep"
    /\ enginePc' = "check"
    /\ UNCHANGED <<engineFrame, seen_modules, sys_modules, changed_files,
                   change_detected, dirty, engineLocal, cycles, undelivered, loads, runs>>

Engine ==
    \/ EngineStart \/ EngineInitialImport \/ EngineInitialExecute \/ EngineInitialRun
    \/ EngineCheckFlag \/ EngineCheckDebounce \/ DrainCopy \/ DrainClear \/ DrainFlag
    \/ EngineReload \/ EngineSafeImport \/ EngineExecute \/ EngineRun \/ EngineSleep

Next ==
    \/ \E f \in EditableFiles : EditFile(f)
    \/ Tick
    \/ UserInterrupt
    \/ Watcher
    \/ Engine

Spec == Init /\ [][Next]_vars

---------------------------------------------------------------------------
(* Properties of the running engine, checked under Spec                    *)

\* C2 as stated: the drain is atomic.  What `self.changed_files.clear()`
\* removes is what `list(self.changed_files)` has just copied, so that no
\* file is added and then cleared without being returned.
C2_DrainAtomic ==
    [][(enginePc = "drain_clear" /\ enginePc' = "drain_flag")
          => changed_files \subseteq dirty]_vars

\* C3 as stated: a change observed at time T is not drained before
\* T + DEBOUNCE_SECONDS.  Whenever the drain copies a non-empty
\* changed_files, the latest observation in it is DEBOUNCE_SECONDS old.
C3_NoDrainInsideWindow ==
    [][(enginePc = "drain_copy" /\ enginePc' = "drain_clear" /\ changed_files # {})
          => sinceObserved >= DEBOUNCE_SECONDS]_vars

\* C5 as stated: once start() runs, the control loop ends in one way only,
\* the user's interrupt; no failure of user code ends it.
C5_OnlyInterruptEndsLoop ==
    enginePc = "terminated" => engineExit = "interrupt"

\* Nothing is left that would make the watcher or the control loop act:
\* every monitored file's mtime is recorded, the flag is down, and the
\* control loop is idling between line 136 and line 154.
Quiescent ==
    /\ enginePc \in {"check", "sleep"}
    /\ ~change_detected
    /\ \/ watcherPc = "poll"
       \/ watcherPc = "loop" /\ \A p \in toCheck : current_mtimes[p] <= LastMtime(p)
    /\ \A p \in watcher_dependencies \cap files : mtime[p] <= LastMtime(p)

\* C7 as stated: every modification of a monitored file is eventually
\* followed by a reload cycle whose drained dirty set holds the file.  Once
\* the system is quiescent no cycle follows unless a file changes again, so
\* the claim requires that no modified file that is monitored is still
\* undelivered then.
C7_NoChangeLeftUndelivered ==
    Quiescent => undelivered \cap watcher_dependencies = {}

\* C8 as stated: after a failed _safe_import the traceback of that failure
\* is in the log, user_module is None, run() is not being invoked and the
\* control loop is still alive; run() is invoked only on the module of a
\* successful load.
C8_FailedImportHandled ==
    /\ importResult = "failed" =>
          /\ log_file = Traceback("load", failures)
          /\ user_module = None
          /\ enginePc \notin {"init_run", "run"}
          /\ enginePc = "terminated" => engineExit = "interrupt"
    /\ enginePc \in {"init_run", "run"} =>
          importResult = "ok" /\ user_module # None

\* C10 as stated: the changes observed in one debounce window are handled
\* by a single reload cycle, whose dirty set is the union of the files
\* changed in the window.
C10_OneCyclePerWindow ==
    /\ cycles <= 1
    /\ (cycles = 1 /\ enginePc = "reload") => window \subseteq dirty

---------------------------------------------------------------------------
(* One edit of a well-behaved entry: the scenario of section 8             *)

\* The user code loads, defines run(), and run() returns; the log is
\* never needed.
WellBehaved ==
    /\ engineExit' = ""
    /\ failures' = failures
    /\ importResult' # "failed"
    /\ enginePc \in {"init_exec", "exec"} => enginePc' \in {"init_run", "run"}

\* What the modification leaves in the entry: the same import, or one
\* more, of a project file the entry did not import before.
EntryRewrites ==
    { Parsed(<<Import(<<"lib">>)>>),
      Parsed(<<Import(<<"lib">>), Import(<<"pkg", "a">>)>>) }

\* The single modification: the entry is saved, still loadable, once the
\* start-up execution is over.
EditEntryOnce ==
    /\ edits = 0
    /\ enginePc \in {"check", "sleep"}
    /\ \E c \in EntryRewrites : Save(F_app, c)

NextOnce ==
    \/ EditEntryOnce
    \/ Tick
    \/ Watcher
    \/ Engine /\ WellBehaved

SpecOnce == Init /\ [][NextOnce]_vars

\* C11 as stated: start-up loads the entry and invokes run() once; one
\* modification of the entry causes one more load and one more invocation,
\* never more, and once the system is at rest again that load has happened
\* and the entry's name is cached with the version just loaded.
C11_OneLoadOneRunPerEdit ==
    /\ loads <= edits + 1 /\ runs <= edits + 1
    /\ (edits = 0 /\ enginePc \in {"check", "sleep"}) => (loads = 1 /\ runs = 1)
    /\ (edits = 1 /\ Quiescent) =>
          /\ loads = 2 /\ runs = 2
          /\ EntryName \in sys_modules
          /\ user_module = <<mtime[entry_point]>>

---------------------------------------------------------------------------
(* Failure handling of the engine, checked under Spec                      *)

\* the step in which the invocation of run() ends by raising, the
\* exception is caught and its traceback written to the log
RunRaisesAndIsLogged ==
    /\ enginePc \in {"init_run", "run"}
    /\ failures' # failures
    /\ log_file' = Traceback("run", failures')

\* C12 as stated, for a failure of run() that is caught and logged: it
\* gets the recovery of a load failure, that is, the loaded-module
\* reference is cleared and the control loop continues.
C12_RunFailureRecovered ==
    [][RunRaisesAndIsLogged => (user_module' = None /\ enginePc' # "terminated")]_vars

\* C13 as stated: a failure of _log_error itself does not propagate out of
\* _safe_import or _execute_user_code and does not stop the control loop.
C13_LogFailureNotEscalated ==
    engineExit # "OSError"

---------------------------------------------------------------------------
(* get_and_clear_dirty called twice in a row, the watcher thread at rest   *)

\* a project in which the entry reaches five files
WideLayout ==
    (F_app :> Parsed(<<Import(<<"lib">>), Import(<<"pkg", "a">>)>>))
    @@ (F_lib :> Parsed(<<>>)) @@ (F_init :> Parsed(<<>>))
    @@ (F_a :> Parsed(<<Import(<<"pkg", "b">>)>>))
    @@ (F_b :> Parsed(<<Import(<<"pkg", "c">>)>>))
    @@ (F_c :> Parsed(<<>>))

\* get_local_dependencies() of the entry in WideLayout
WideDependencies == {F_app, F_lib, F_a, F_b, F_c}

\* A FileWatcher that has accumulated any set of its monitored files, with
\* the flag up or down, and a caller about to drain it.
InitDrain ==
    /\ files = AllFiles
    /\ unreadable = {}
    /\ fileSrc = WideLayout
    /\ entry_point = F_app
    /\ InitScanIdle
    /\ sys_modules = {}
    /\ reloadPc = "idle"
    /\ dirty_paths = {}
    /\ modulesBefore = {}
    /\ sorted_eviction = <<>>
    /\ evicted_names = <<>>
    /\ reloadReturn = {}
    /\ mtime = [f \in AllFiles |-> 1]
    /\ edits = 0
    /\ watcherPc = "unstarted"
    /\ watcher_dependencies = WideDependencies
    /\ last_mtimes = GetMtimes(watcher_dependencies)
    /\ current_mtimes = <<>>
    /\ toCheck = {}
    /\ changed_files \in SUBSET watcher_dependencies
    /\ change_detected \in BOOLEAN
    /\ sinceLastChange = DEBOUNCE_SECONDS
    /\ enginePc = "drain_copy"
    /\ engineExit = ""
    /\ dirty = {}
    /\ user_module = None
    /\ log_file = <<>>
    /\ importResult = "none"
    /\ failures = 0
    /\ sinceObserved = DEBOUNCE_SECONDS
    /\ window = changed_files
    /\ cycles = 0
    /\ undelivered = {}
    /\ loads = 0
    /\ runs = 0
    /\ watcherScan = NoScan
    /\ resolveCall = NoCall

\* the first call has returned: the caller calls get_and_clear_dirty again
DrainAgain ==
    /\ enginePc = "reload"
    /\ cycles = 1
    /\ enginePc' = "drain_copy"
    /\ UNCHANGED <<engineFrame, seen_modules, sys_modules, changed_files,
                   change_detected, dirty, engineLocal, cycles, undelivered, loads, runs>>

NextDrain == DrainCopy \/ DrainClear \/ DrainFlag \/ DrainAgain

SpecDrain == InitDrain /\ [][NextDrain]_vars

\* the n-th call of get_and_clear_dirty has returned; `dirty` is what it
\* returned
DrainReturned(n) == enginePc = "reload" /\ cycles = n

\* C14: with no watcher activity, the first of two consecutive drains
\* returns the accumulated set and leaves change_detected false, and the
\* second returns nothing.
C14_SecondDrainEmpty ==
    /\ DrainReturned(1) => (dirty = window /\ ~change_detected)
    /\ DrainReturned(2) => (dirty = {} /\ ~change_detected)

C14_Witness ==
    /\ DrainReturned(2)
    /\ Cardinality(window) >= 2
    /\ dirty = {}

---------------------------------------------------------------------------
(* Further properties of the log, the reloader and the resolver            *)

\* C15 as stated: after any sequence of failures the log holds exactly the
\* traceback of the most recent one: one traceback, never two, it is there
\* as soon as something has failed, and it is the latest failure's.
C15_LogHoldsLatestFailure ==
    /\ Len(log_file) <= 1
    /\ failures = 1 => log_file # <<>>
    /\ log_file # <<>> => log_file[1].n = failures

\* C16: reload_affected_modules([]) returns an empty list and leaves the
\* module cache as it was, whatever the cache holds.
C16_EmptyDirtyEvictsNothing ==
    (ReloadReturned /\ dirty_paths = {}) =>
        /\ reloadReturn = {}
        /\ evicted_names = <<>>
        /\ sys_modules = modulesBefore

C16_Witness ==
    /\ ReloadReturned
    /\ dirty_paths = {}
    /\ modulesBefore = CacheNames
    /\ sys_modules = CacheNames

\* C17: called alone, get_local_dependencies() returns exactly the files
\* reachable from the entry file along the import edges of the files that
\* can be read and parsed.
C17_ExactlyReachable ==
    ScanReturned =>
        dependencies = Closure(BaseDir(entry_point), {entry_point})

\* C17 witness: a chain app -> pkg/a -> pkg/b -> pkg/c was followed to its
\* end and pkg/__init__.py, which nothing imports, is not in the result.
C17_Witness ==
    /\ ScanReturned
    /\ entry_point = F_app
    /\ F_a \in ImportEdges(BaseDir(F_app), F_app)
    /\ F_b \in ImportEdges(BaseDir(F_app), F_a)
    /\ F_c \in ImportEdges(BaseDir(F_app), F_b)
    /\ F_c \in dependencies
    /\ F_init \notin dependencies

---------------------------------------------------------------------------
(* Two threads resolving on the one DependencyTracker of the engine        *)

\* The watcher thread's call as a resolution state: `dependencies` and the
\* activations of _scan are its own, self.seen_modules is the tracker's.
WatcherScanState ==
    ScanState(watcherScan.stack, watcherScan.dependencies, seen_modules, watcherScan.raised)

SetWatcherScan(pc, st) ==
    /\ watcherScan' = [pc |-> pc, stack |-> st.stack,
                       dependencies |-> st.dependencies, raised |-> st.raised]
    /\ seen_modules' = st.seen_modules

\* watcher.py line 98 enters get_local_dependencies: lines 51-55
WatcherCallGetLocalDependencies ==
    /\ watcherScan.pc = "idle"
    /\ SetWatcherScan("scanning", GetLocalDependenciesBegin(entry_point))
    /\ UNCHANGED <<fsVars, scanPc, scanStack, dependencies, scanRaised, reloadVars,
                   mtime, edits, watcherVars, engineVars, historyVars,
                   resolveCall>>

\* a step of _scan in the watcher thread
WatcherStepScan ==
    /\ watcherScan.pc = "scanning"
    /\ watcherScan.stack # <<>>
    /\ SetWatcherScan("scanning", ScanStep(BaseDir(entry_point), WatcherScanState))
    /\ UNCHANGED <<fsVars, scanPc, scanStack, dependencies, scanRaised, reloadVars,
                   mtime, edits, watcherVars, engineVars, historyVars,
                   resolveCall>>

\* lines 56-58 in the watcher thread
WatcherReturnGetLocalDependencies ==
    /\ watcherScan.pc = "scanning"
    /\ watcherScan.stack = <<>>
    /\ watcherScan' = [watcherScan EXCEPT !.pc = "returned"]
    /\ UNCHANGED <<fsVars, scanVars, reloadVars,
                   mtime, edits, watcherVars, engineVars, historyVars,
                   resolveCall>>

NextTwoScans ==
    \/ CallGetLocalDependencies \/ StepScan \/ ReturnGetLocalDependencies
    \/ WatcherCallGetLocalDependencies \/ WatcherStepScan
    \/ WatcherReturnGetLocalDependencies

SpecTwoScans == InitScan /\ [][NextTwoScans]_vars

\* C18 as stated: a resolution that runs while the other thread resolves on
\* the same tracker returns what it returns when it runs alone.
C18_ConcurrentScanSameResult ==
    /\ ScanReturned => dependencies = GetLocalDependencies(entry_point)
    /\ watcherScan.pc = "returned" =>
          watcherScan.dependencies = GetLocalDependencies(entry_point)

\* C19: in every call of reload_affected_modules the files are processed
\* in non-increasing order of path depth: no file comes after a file with
\* strictly fewer path components.
C19_DeepestFirst ==
    ReloadReturned =>
        \A i, j \in DOMAIN sorted_eviction :
            i < j => Depth(sorted_eviction[i]) >= Depth(sorted_eviction[j])

\* C19 witness: a call that evicted files of both depths, three or more.
C19_Witness ==
    /\ ReloadReturned
    /\ Len(sorted_eviction) >= 3
    /\ Depth(sorted_eviction[1]) > Depth(sorted_eviction[Len(sorted_eviction)])

\* a file that has been saved since the engine was built
Modified(p) == mtime[p] > 1

\* C20 as stated: only a file whose modification time has increased is
\* reported; a file that has not been modified, one that has only just
\* entered the monitored set included, is never in the dirty set.
C20_OnlyModifiedFilesReported ==
    \A p \in changed_files : Modified(p)

---------------------------------------------------------------------------
(* The watcher's live set                                                  *)

\* C21 as stated: after the watcher has processed a change, its live set
\* (what line 98 assigns to self.dependencies) is resolve(entry) at that
\* moment, the files reachable from the entry, so that a newly imported
\* file is monitored from then on.
C21_LiveSetIsResolveEntry ==
    watcherScan.pc = "returned" =>
        watcherScan.dependencies = Closure(BaseDir(entry_point), {entry_point})

---------------------------------------------------------------------------
(* The watcher thread polling files that come and go                       *)

filesFrame == <<fileSrc, entry_point, seen_modules, sys_modules, idleVars, mtime, edits,
                watcherVars, engineVars, historyVars>>

\* a monitored file is deleted or moved away, and comes back
FileVanishes(f) ==
    /\ f \in files
    /\ files' = files \ {f}
    /\ UNCHANGED <<unreadable, filesFrame>>

FileReturns(f) ==
    /\ f \notin files
    /\ files' = files \cup {f}
    /\ UNCHANGED <<unreadable, filesFrame>>

\* os.stat of f starts to fail with an OSError that is not
\* FileNotFoundError (its directory loses search permission, a path
\* component becomes a regular file, an I/O error), and recovers
StatDenied(f) ==
    /\ f \notin unreadable
    /\ unreadable' = unreadable \cup {f}
    /\ UNCHANGED <<files, filesFrame>>

StatAllowed(f) ==
    /\ f \in unreadable
    /\ unreadable' = unreadable \ {f}
    /\ UNCHANGED <<files, filesFrame>>

NextPoll ==
    \/ EngineStart
    \/ Watcher
    \/ \E f \in EditableFiles : EditFile(f)
    \/ \E f \in EditableFiles : FileVanishes(f)
    \/ \E f \in EditableFiles : FileReturns(f)
    \/ \E f \in EditableFiles : StatDenied(f)
    \/ \E f \in EditableFiles : StatAllowed(f)

SpecPoll == Init /\ [][NextPoll]_vars

\* C22 as stated: no outcome of reading a monitored file's modification
\* time makes the watcher thread terminate.
C22_WatcherNeverTerminates ==
    watcherPc # "dead"

---------------------------------------------------------------------------
(* _resolve_import_to_path on its own                                      *)

\* Bound: the largest relative-import level
MaxLevel == 2

F_pkg_py == <<"proj", "pkg">>
F_a_top == <<"proj", "a">>

\* the files that may or may not exist; app.py always does
OptionalFiles == {F_lib, F_init, F_a, F_pkg_py, F_a_top}

ModuleNames == { <<>>, <<"pkg">>, <<"pkg", "a">>, <<"a">>, <<"lib">> }
ItemNames == { "", "a", "x" }
ImportingFiles == { <<>>, F_app, F_a }

\* The calls _scan makes (lines 122-146): `import m` passes the module
\* alone; `from m import n` passes the name, and once more no name, with
\* the level and the importing file; `from . import n` passes "" and the
\* name with a level above 0.
ScanCanCall(base_name, item_name, level, current_file) ==
    \/ base_name # <<>> /\ item_name = "" /\ level = 0 /\ current_file = <<>>
    \/ base_name # <<>> /\ current_file # <<>>
    \/ base_name = <<>> /\ item_name # "" /\ level > 0 /\ current_file # <<>>

InitResolve ==
    /\ files \in { {F_app} \cup S : S \in SUBSET OptionalFiles }
    /\ unreadable = {}
    /\ fileSrc = StartLayout
    /\ entry_point \in Entries
    /\ InitScanIdle
    /\ sys_modules = {}
    /\ reloadPc = "idle"
    /\ dirty_paths = {}
    /\ modulesBefore = {}
    /\ sorted_eviction = <<>>
    /\ evicted_names = <<>>
    /\ reloadReturn = {}
    /\ InitRunIdle

CallResolveImportToPath ==
    /\ \E base_name \in ModuleNames, item_name \in ItemNames,
          level \in 0..MaxLevel, current_file \in ImportingFiles :
         /\ ScanCanCall(base_name, item_name, level, current_file)
         /\ resolveCall' =
              [called |-> TRUE, base_name |-> base_name, item_name |-> item_name,
               level |-> level, current_file |-> current_file,
               result |-> ResolveImportToPath(BaseDir(entry_point), base_name,
                                              item_name, level, current_file)]
    /\ UNCHANGED <<fsVars, scanVars, reloadVars, mtime, edits, watcherVars, engineVars,
                   historyVars, watcherScan>>

NextResolve == CallResolveImportToPath

SpecResolve == InitResolve /\ [][NextResolve]_vars

\* The anchor as the specification words it: the project root for an
\* absolute import, for a relative import of level n the directory n-1
\* levels above the importing file's directory.
StatedAnchor ==
    IF resolveCall.level = 0 THEN Parent(entry_point)
    ELSE Up(Parent(resolveCall.current_file), resolveCall.level - 1)

\* <dir>/<module path>.py
ModuleFile(dir, module) == IF module = <<>> THEN dir \o <<"">> ELSE dir \o module

StatedName == StatedAnchor \o resolveCall.base_name \o <<resolveCall.item_name>>
StatedModule == ModuleFile(StatedAnchor, resolveCall.base_name)
StatedPackage == StatedAnchor \o resolveCall.base_name \o <<"__init__">>

\* C23: _resolve_import_to_path returns the first that exists of
\* <anchor>/<module path>/<name>.py, <anchor>/<module path>.py and
\* <anchor>/<module path>/__init__.py, and None when none exists.
C23_FirstExistingCandidate ==
    resolveCall.called =>
        resolveCall.result =
            IF resolveCall.item_name # "" /\ StatedName \in files THEN <<StatedName>>
            ELSE IF StatedModule \in files THEN <<StatedModule>>
            ELSE IF StatedPackage \in files THEN <<StatedPackage>>
            ELSE <<>>

\* C23 witness: `from pkg import a` in app.py with pkg/a.py, pkg.py and
\* pkg/__init__.py all there: pkg/a.py is returned.
C23_Witness ==
    /\ resolveCall.called
    /\ resolveCall.base_name = <<"pkg">> /\ resolveCall.item_name = "a"
    /\ resolveCall.level = 0
    /\ {F_a, F_pkg_py, F_init} \subseteq files
    /\ resolveCall.result = <<F_a>>

\* the watcher thread is between two ticks (or not started), and the main
\* thread is not between the first and the last statement of a drain
BetweenTickAndDrain ==
    /\ watcherPc \in {"unstarted", "poll"}
    /\ enginePc \notin {"drain_clear", "drain_flag"}

\* C24 as stated: whenever neither thread is in the middle of a watcher
\* tick or of a drain, a pending changed file comes with the flag that
\* makes the control loop look at it.
C24_PendingImpliesFlag ==
    BetweenTickAndDrain => (changed_files # {} => change_detected)

\* the identities a file can be evicted under in this call
IdentitiesOf(f) ==
    LET name == GetModuleName(BaseDir(entry_point), f)
    IN (IF name # <<>> THEN {name} ELSE {})
         \cup (IF f = entry_point THEN {<<Stem(entry_point)>>} ELSE {})

\* the files the call went through: the dirty ones, and files of the
\* project whose own resolution reaches another of them
FoundAffected ==
    LET all_project_files == Closure(BaseDir(entry_point), {entry_point})
    IN \A f \in Range(sorted_eviction) \ dirty_paths :
          /\ f \in all_project_files
          /\ (Range(sorted_eviction) \ {f}) \cap Closure(BaseDir(f), {f}) # {}

\* C25: reload_affected_modules only deletes cache entries; what it returns
\* is, without duplicates, exactly what was cached before and is absent
\* after; each returned identity is that of a dirty file or of a file found
\* to depend on one (or the entry's stem); a file outside the project root
\* is passed over: it has no identity, nothing is evicted for it and the
\* call returns.
C25_OnlyDeletesWhatItReturns ==
    ReloadReturned =>
        /\ sys_modules \subseteq modulesBefore
        /\ reloadReturn = modulesBefore \ sys_modules
        /\ Cardinality(reloadReturn) = Len(evicted_names)
        /\ dirty_paths \subseteq Range(sorted_eviction)
        /\ FoundAffected
        /\ reloadReturn \subseteq UNION { IdentitiesOf(f) : f \in Range(sorted_eviction) }
        /\ \A f \in dirty_paths :
              ~IsPrefix(BaseDir(entry_point), f) => IdentitiesOf(f) = {}

\* C25 witness: the entry is pkg/a.py, the dirty list holds app.py, outside
\* the project root pkg/, and a.py; a is evicted and app stays cached.
C25_Witness ==
    /\ ReloadReturned
    /\ entry_point = F_a
    /\ dirty_paths = {F_app, F_a}
    /\ <<"app">> \in modulesBefore /\ <<"app">> \in sys_modules
    /\ <<"a">> \in reloadReturn

=============================================================================
